---- MODULE Spec2Model ----
(***************************************************************************)
(* Model of the timed task-allocation loop of src/BOT.py (class TaskBot    *)
(* and its slash commands).  One cooperative event loop: every action is   *)
(* the code that runs between two await points of one coroutine.           *)
(***************************************************************************)
EXTENDS Integers, Sequences, FiniteSets, TLC

(* ---------- bounds of the model ---------- *)
NumUsers == 2
MaxTasks == 2
MaxWinners == 2
MaxRounds == 2
MaxLoops == 2
MaxEvents == 1
MaxRemovalTasks == 2
MaxEnvEvents == 5
MaxFaults == 1

(* ---------- program constants ---------- *)
DEFAULT_INTERVAL_MINUTES == 1
DEFAULT_REACTION_TIME_SECONDS == 10
DEFAULT_WINNERS_PER_TASK == 1
DatetimeMax == 1000
MINIMUM_REDDIT_KARMA == 100

Users == 1..NumUsers
Emojis == {"check", "other"}
None == 0

VARIABLES
  configured, announce_channel,
  total_tasks, current_task, winners_per_task,
  is_paused, stop_requested,
  interval_minutes, reaction_time,
  reaction_timestamps,
  task_allocation_loop,
  role_removal_tasks,
  loops, next_message_id, events, create_pending,
  msg_reactions, role_members,
  batch, settled, settled_tasks, pause_snap, env_events, faults,
  out, unclaimed_range, aborted_range

botvars == <<configured, announce_channel, total_tasks, current_task,
             winners_per_task, is_paused, stop_requested, interval_minutes,
             reaction_time>>
vars == <<configured, announce_channel, total_tasks, current_task,
          winners_per_task, is_paused, stop_requested, interval_minutes,
          reaction_time, reaction_timestamps, task_allocation_loop,
          role_removal_tasks, loops, next_message_id, events, create_pending,
          msg_reactions, role_members, batch, settled, settled_tasks, pause_snap, env_events, faults,
          out, unclaimed_range, aborted_range>>

(* ---------- helpers ---------- *)
\* one more event of the environment (a command, a reaction, a gateway ready,
\* the removal delay of a revocation task running out)
EnvEvent == env_events < MaxEnvEvents /\ env_events' = env_events + 1
\* failed: an external call of this step failed
Fault(failed) ==
  /\ failed => faults < MaxFaults
  /\ faults' = IF failed THEN faults + 1 ELSE faults

Min(a, b) == IF a <= b THEN a ELSE b

RECURSIVE AscSeq(_)
\* the users of a set in ascending id order (the order reaction.users() yields)
AscSeq(S) ==
  IF S = {} THEN <<>>
  ELSE LET x == CHOOSE y \in S : \A z \in S : y <= z
       IN <<x>> \o AscSeq(S \ {x})

SeqSet(s) == {s[k] : k \in 1..Len(s)}

\* how many winners each task number of the batch was settled for (lines
\* 511 and 523: current_task_num is recorded with the winner)
NoneSettled == [t \in 1..MaxTasks |-> 0]
Settle(f, t) == [f EXCEPT ![t] = @ + 1]

DropKey(f, k) == [x \in DOMAIN f \ {k} |-> f[x]]

(* ---------- the loop object (discord.ext.tasks.Loop around the cycle) ---------- *)
\* a loop whose coroutine is not inside a round: locals are gone
IdleLoop(st, p, sn) ==
  [status |-> st, pc |-> p, stop_next |-> sn,
   starting_task_num |-> 0, remaining_tasks |-> 0, tasks_this_round |-> 0,
   round_winners_per_task |-> 0,
   message |-> None, eligible |-> <<>>, sort_key |-> <<>>, winners |-> <<>>,
   i |-> 0, winners_assigned |-> <<>>]

\* the coroutine returned: Loop._loop checks _stop_next_iteration, else sleeps
AfterIterationMutant(r) == IdleLoop("done", "end", FALSE)
AfterIteration(r) ==
  IF r.stop_next THEN IdleLoop("done", "end", FALSE)
  ELSE IdleLoop("running", "sleep", FALSE)

is_running(l) == l # None /\ loops[l].status = "running"

\* Loop.stop(): graceful, only marks a running loop
LoopStop(ls, l) ==
  IF l # None /\ ls[l].status = "running"
  THEN [ls EXCEPT ![l].stop_next = TRUE] ELSE ls

RoundOpen(r) == r.status = "running" /\ r.pc \in {"window", "settle_grant", "settle_notify", "congrats"}

OpenMessages == {loops[l].message : l \in {k \in 1..Len(loops) : RoundOpen(loops[k])}}

(* ---------- eligibility and winner selection (lines 486-505) ---------- *)
\* the bot's own account: it adds the check mark to every announcement (line 457)
BotUser == 0
Accounts == Users \cup {BotUser}

\* line 489: user.bot
IsBotMutant(u) == FALSE
IsBot(u) == u = BotUser

\* lines 489-492: a reacting account is kept when it is no bot and
\* get_member_safely returns a member for it (the bot itself is a member)
Resolves(u, resolved) == ~IsBot(u) /\ (u = BotUser \/ u \in resolved)

\* line 492: the members found again under a second reaction and not added twice
Repeated(R, resolved) ==
  LET twice == {u \in Users \cap resolved : \A e \in Emojis : <<u, e>> \in R}
  IN IF twice = {} THEN <<>> ELSE << <<"repeated", twice>> >>

\* the users get_member_safely was called for and returned None
Unresolved(R, resolved) ==
  LET missing == {u \in Users \ resolved : \E e \in Emojis : <<u, e>> \in R}
  IN IF missing = {} THEN <<>> ELSE << <<"unresolved", missing>> >>

\* reactors: per reaction (the bot's check mark first), users in id order,
\* members that resolve, no duplicates
Reactors(R, resolved) ==
  LET chk == {u \in Accounts : <<u, "check">> \in R /\ Resolves(u, resolved)}
      oth == {u \in Accounts : <<u, "other">> \in R /\ Resolves(u, resolved)} \ chk
  IN AscSeq(chk) \o AscSeq(oth)

EligibleReactors(reactors, holders) ==
  SelectSeq(reactors, LAMBDA m : m \notin holders)

SortKey(m, stamps) == IF m \in DOMAIN stamps THEN stamps[m] ELSE DatetimeMax

\* an aware timestamp compared with the naive datetime.max raises TypeError
SortRaises(eligible, stamps) ==
  /\ Len(eligible) >= 2
  /\ \E k \in 1..Len(eligible) : eligible[k] \in DOMAIN stamps
  /\ \E k \in 1..Len(eligible) : eligible[k] \notin DOMAIN stamps

RECURSIVE InsertSorted(_, _, _)
\* stable insertion: x goes after every element whose key is <= its key
InsertSorted(x, s, stamps) ==
  IF s = <<>> THEN <<x>>
  ELSE IF SortKey(Head(s), stamps) <= SortKey(x, stamps)
       THEN <<Head(s)>> \o InsertSorted(x, Tail(s), stamps)
       ELSE <<x>> \o s

SortedReactorsMutant(eligible, stamps) == eligible
RECURSIVE SortedReactors(_, _)
SortedReactors(eligible, stamps) ==
  IF eligible = <<>> THEN <<>>
  ELSE InsertSorted(eligible[Len(eligible)],
                    SortedReactors(SubSeq(eligible, 1, Len(eligible) - 1), stamps),
                    stamps)

SelectWinnersMutant(sorted, n) == sorted
SelectWinners(sorted, n) == SubSeq(sorted, 1, Min(n, Len(sorted)))

TasksThisRoundMutant(wpt, remaining) == wpt
TasksThisRound(wpt, remaining) == Min(wpt, remaining)

\* line 511: the task number of the i-th winner (0-based) of a round
TaskNumberMutant(start, i) == start
TaskNumber(start, i) == start + i

AdvanceCounterMutant(cur, n) == cur - n
AdvanceCounter(cur, n) == cur + n

(* ---------- ghost state used only to state properties ---------- *)
NoSnap == [state |-> "none", current_task |-> 0, total_tasks |-> 0,
           winners_per_task |-> 0, interval_minutes |-> 0, reaction_time |-> 0,
           stop_requested |-> FALSE, mark |-> 0]

\* _role_removal_tasks: the pending revocation tasks <<member, origin>>, in the
\* order they were scheduled; with one removal delay they fire in that order
Origins == {"cycle", "manual"}

(* ---------- construction: TaskBot.__init__ (lines 116-138) ---------- *)
Init ==
  /\ configured = FALSE
  /\ announce_channel = FALSE
  /\ total_tasks = 0
  /\ current_task = 1
  /\ winners_per_task = DEFAULT_WINNERS_PER_TASK
  /\ is_paused = FALSE
  /\ stop_requested = FALSE
  /\ interval_minutes = DEFAULT_INTERVAL_MINUTES
  /\ reaction_time = DEFAULT_REACTION_TIME_SECONDS
  /\ reaction_timestamps = <<>>
  /\ task_allocation_loop = None
  /\ role_removal_tasks = <<>>
  /\ loops = <<>>
  /\ next_message_id = 1
  /\ events = <<>>
  /\ create_pending = FALSE
  /\ msg_reactions = <<>>
  /\ role_members = {}
  /\ batch = 0
  /\ settled = 0
  /\ settled_tasks = NoneSettled
  /\ pause_snap = NoSnap
  /\ env_events = 0
  /\ faults = 0
  /\ out = <<>>
  /\ unclaimed_range = <<>>
  /\ aborted_range = <<>>

\* the platform keeps reactions of every message; the model keeps those the
\* code can still fetch (rounds inside their reaction window)
WindowMessages(ls) ==
  {ls[l].message : l \in {k \in 1..Len(ls) : ls[k].status = "running" /\ ls[k].pc = "window"}}

Platform(ls, mr) == [m \in WindowMessages(ls) \cap DOMAIN mr |-> mr[m]]

(* ---------- on_ready (lines 181-207) with cleanup_lingering_roles (209-230) ---------- *)
on_ready ==
  \E found \in BOOLEAN, logs \in BOOLEAN, kept \in SUBSET role_members :
    /\ EnvEvent
    /\ logs = found
    /\ Fault(~found \/ kept # {})
    /\ announce_channel' = found
    /\ configured' = (configured \/ (found /\ logs))
    \* remove_roles may fail per member (Forbidden, HTTPException): those keep the role
    /\ role_members' = kept
    /\ UNCHANGED <<total_tasks, current_task, winners_per_task, is_paused,
                   stop_requested, interval_minutes, reaction_time,
                   reaction_timestamps, task_allocation_loop, role_removal_tasks,
                   loops, next_message_id, events, create_pending, msg_reactions,
                   batch, settled, settled_tasks, pause_snap>>
    /\ out' = <<>>
    /\ UNCHANGED unclaimed_range
    /\ UNCHANGED aborted_range

(* ---------- restart_task_loop (lines 373-386) ---------- *)
\* Loop.cancel(): CancelledError is thrown into the coroutine at its await;
\* it is no Exception, so neither handler of the cycle catches it
CancelLoopMutant(r) == r
\* the cancelled loop keeps, for the record, the await it was cancelled at
CancelLoop(r) == IdleLoop("cancelled", r.pc, FALSE)

\* cfg, chan: the values of configured and announce_channel the call reads
RestartTaskLoop(cfg, chan) ==
  LET old == task_allocation_loop
      cancelled == IF is_running(old)
                   THEN [loops EXCEPT ![old] = CancelLoop(loops[old])]
                   ELSE loops
      fresh == IF cfg /\ chan THEN IdleLoop("running", "start", FALSE)
               ELSE IdleLoop("unstarted", "end", FALSE)
  IN /\ loops' = Append(cancelled, fresh)
     /\ task_allocation_loop' = Len(loops) + 1
     /\ msg_reactions' = Platform(loops', msg_reactions)
     \* a role grant in flight when the coroutine is cancelled may have landed
     /\ IF is_running(old) /\ loops[old].pc = "settle_grant"
        THEN \E landed \in BOOLEAN :
               role_members' = IF landed
                               THEN role_members \cup {loops[old].winners[loops[old].i + 1]}
                               ELSE role_members
        ELSE role_members' = role_members

(* ---------- task_allocation_loop_impl (lines 399-561) ---------- *)
SetLoop(l, r) ==
  /\ loops' = [loops EXCEPT ![l] = r]
  /\ msg_reactions' = Platform(loops', msg_reactions)

\* a tick is due: the first iteration of a started loop, or the interval elapsed
TickDue(l) ==
  /\ l \in 1..Len(loops)
  /\ loops[l].status = "running"
  /\ loops[l].pc \in {"start", "sleep"}

\* Loop.stop() was called before the first iteration: the loop ends at once
LoopStoppedBeforeStart(l) ==
  /\ TickDue(l) /\ loops[l].pc = "start" /\ loops[l].stop_next
  /\ SetLoop(l, IdleLoop("done", "end", FALSE))
  /\ UNCHANGED <<botvars, reaction_timestamps, task_allocation_loop,
                 role_removal_tasks, next_message_id, events, create_pending,
                 role_members, batch, settled, settled_tasks, pause_snap>>
  /\ UNCHANGED <<env_events, faults>>
  /\ out' = <<>>
  /\ UNCHANGED unclaimed_range
  /\ UNCHANGED aborted_range

TickRuns(l) == TickDue(l) /\ ~(loops[l].pc = "start" /\ loops[l].stop_next)

\* lines 402-411: stop requested, paused or not configured: return
SkipsTickMutant == stop_requested
SkipsTickUnstoppedMutant == is_paused \/ ~configured \/ ~announce_channel
SkipsTick == stop_requested \/ is_paused \/ ~configured \/ ~announce_channel

\* the branch a tick takes is logged (lines 403, 406, 410, 414, 427, 432)
SkipReason ==
  IF stop_requested THEN "stop"
  ELSE IF is_paused THEN "paused"
  ELSE "unconfigured"

TickSkipped(l) ==
  /\ TickRuns(l)
  /\ SkipsTick
  /\ SetLoop(l, AfterIteration(loops[l]))
  /\ UNCHANGED <<botvars, reaction_timestamps, task_allocation_loop,
                 role_removal_tasks, next_message_id, events, create_pending,
                 role_members, batch, settled, settled_tasks, pause_snap>>
  /\ UNCHANGED <<env_events, faults>>
  /\ out' = << <<"tick", SkipReason>> >>
  /\ UNCHANGED unclaimed_range
  /\ UNCHANGED aborted_range

\* line 413: every task of the batch has been assigned
CompletedMutant(cur, total) == cur > total + 1
Completed(cur, total) == cur > total

\* lines 415 and 426-428: send_log("All tasks have been completed!") is called
\* in the completed branch only; logged: the send to the logs channel succeeded
CompletionNotice(cur, total, logged) ==
  IF ~Completed(cur, total) THEN << <<"tick", "no_tasks">> >>
  ELSE IF logged THEN << <<"tick", "completed">>, <<"completion">> >>
  ELSE << <<"tick", "completed">> >>

\* lines 413-419 and 426-430: nothing left to assign: stop the current loop object
TickCompleted(l) ==
  /\ TickRuns(l)
  /\ ~SkipsTick
  /\ \/ Completed(current_task, total_tasks)
     \/ TasksThisRound(winners_per_task, total_tasks - current_task + 1) <= 0
  /\ \E logged \in BOOLEAN :
       /\ Fault(~logged)
       /\ ~logged => Completed(current_task, total_tasks)
       /\ out' = CompletionNotice(current_task, total_tasks, logged)
  /\ LET stopped == LoopStop(loops, task_allocation_loop)
     IN /\ loops' = [stopped EXCEPT ![l] = AfterIteration(stopped[l])]
        /\ msg_reactions' = Platform(loops', msg_reactions)
  /\ UNCHANGED <<botvars, reaction_timestamps, task_allocation_loop,
                 role_removal_tasks, next_message_id, events, create_pending,
                 role_members, batch, settled, settled_tasks, pause_snap>>
  /\ UNCHANGED env_events
  /\ UNCHANGED unclaimed_range
  /\ UNCHANGED aborted_range

\* lines 560-561: an exception of the round is caught and logged as critical
Critical == << <<"critical">> >>

\* the range of a round that an exception ended before any reaction was read,
\* remembered unless create_task is replacing the batch, and marked "again"
\* by the next round that opens
AbortedRange(r) ==
  IF create_pending THEN <<>> ELSE <<r.starting_task_num, r.tasks_this_round>>

\* lines 421-477: announce the round and start the reaction window
\* sent: announce_channel.send succeeded; reacted: message.add_reaction succeeded
TickAnnounces(l) ==
  /\ TickRuns(l)
  /\ ~SkipsTick
  /\ ~Completed(current_task, total_tasks)
  /\ TasksThisRound(winners_per_task, total_tasks - current_task + 1) > 0
  /\ next_message_id <= MaxRounds
  /\ \E sent \in BOOLEAN, reacted \in BOOLEAN :
       /\ Fault(~sent \/ ~reacted)
       /\ LET m == next_message_id
              remaining == total_tasks - current_task + 1
              r == [loops[l] EXCEPT
                      !.pc = "window",
                      !.starting_task_num = current_task,
                      !.remaining_tasks = remaining,
                      !.tasks_this_round = TasksThisRound(winners_per_task, remaining),
                      !.round_winners_per_task = winners_per_task,
                      !.message = m]
          IN IF ~sent
             THEN \* the exception is caught at line 560: the tick ends
                  /\ reacted
                  /\ SetLoop(l, AfterIteration(loops[l]))
                  /\ out' = << <<"tick", "round">> >> \o Critical
                  /\ aborted_range' = AbortedRange(r)
                  /\ UNCHANGED <<reaction_timestamps, next_message_id, unclaimed_range>>
             ELSE /\ next_message_id' = m + 1
                  /\ out' = << <<"tick", "round">>,
                               <<"announce", r.starting_task_num, r.tasks_this_round>> >>
                            \o (IF reacted THEN <<>> ELSE Critical)
                  /\ aborted_range' = IF ~reacted THEN AbortedRange(r)
                                       ELSE IF Len(aborted_range) = 2
                                       THEN Append(aborted_range, "again")
                                       ELSE <<>>
                  /\ unclaimed_range' = <<>>
                  /\ reaction_timestamps' = (m :> <<>>) @@ reaction_timestamps
                  /\ IF reacted
                     THEN /\ loops' = [loops EXCEPT ![l] = r]
                          /\ msg_reactions' = Platform(loops', (m :> {<<BotUser, "check">>})
                                                                @@ msg_reactions)
                     ELSE SetLoop(l, AfterIteration(loops[l]))
  /\ UNCHANGED <<botvars, task_allocation_loop, role_removal_tasks, events,
                 create_pending, role_members, batch, settled, settled_tasks, pause_snap>>
  /\ UNCHANGED env_events

\* the round's entry is deleted at line 559
Purge(rt, m) == DropKey(rt, m)

\* line 478: the flag is read again when the sleep of line 477 returns
StopSeenAfterWindowMutant == FALSE
StopSeenAfterWindow == stop_requested

\* lines 477-480: the window elapsed and a stop was requested: the halt is
\* logged (line 479) and the coroutine returns
WindowStopped(l) ==
  /\ l \in 1..Len(loops) /\ loops[l].status = "running" /\ loops[l].pc = "window"
  /\ StopSeenAfterWindow
  /\ SetLoop(l, AfterIteration(loops[l]))
  /\ UNCHANGED <<botvars, reaction_timestamps, task_allocation_loop,
                 role_removal_tasks, next_message_id, events, create_pending,
                 role_members, batch, settled, settled_tasks, pause_snap>>
  /\ UNCHANGED <<env_events, faults>>
  /\ out' = << <<"halt">> >>
  /\ UNCHANGED unclaimed_range
  /\ UNCHANGED aborted_range

\* lines 540-557: the notice of an unclaimed round names the range offered
UnclaimedNoticeMutant(r, noticed) == <<>>
UnclaimedNotice(r, noticed) ==
  IF noticed THEN << <<"unclaimed", r.starting_task_num, r.tasks_this_round>> >>
  ELSE <<>>

\* lines 484-505 and 540-559: fetch the reactions, resolve, select
\* fetched: fetch_message and reaction.users() succeeded; resolved: the users
\* get_member_safely returns a member for; noticed: the unclaimed notice was sent
WindowElapsed(l) ==
  /\ l \in 1..Len(loops) /\ loops[l].status = "running" /\ loops[l].pc = "window"
  /\ ~StopSeenAfterWindow
  /\ \E fetched \in BOOLEAN, resolved \in SUBSET Users, noticed \in BOOLEAN :
       /\ Fault(~fetched \/ ~noticed \/ resolved # Users)
       \* one choice per behaviour: get_member_safely is called for reactors only
       /\ \A u \in Users \ resolved :
            \E e \in Emojis : <<u, e>> \in msg_reactions[loops[l].message]
       /\ LET r == loops[l]
              m == r.message
              stamps == IF m \in DOMAIN reaction_timestamps
                        THEN reaction_timestamps[m] ELSE <<>>
              reactors == Reactors(msg_reactions[m], resolved)
              eligible == EligibleReactors(reactors, role_members)
              sorted == SortedReactors(eligible, stamps)
              winners == SelectWinners(sorted, r.tasks_this_round)
          IN IF ~fetched
             THEN /\ resolved = Users /\ noticed
                  /\ SetLoop(l, AfterIteration(r))
                  /\ out' = Critical
                  /\ aborted_range' = AbortedRange(r)
                  /\ UNCHANGED <<reaction_timestamps, unclaimed_range>>
             ELSE IF eligible = <<>>
             THEN /\ SetLoop(l, AfterIteration(r))
                  /\ out' = << <<"fetch">> >> \o Unresolved(msg_reactions[m], resolved)
                            \o Repeated(msg_reactions[m], resolved)
                            \o UnclaimedNotice(r, noticed)
                            \o (IF noticed THEN <<>> ELSE Critical)
                  /\ UNCHANGED aborted_range
                  \* the range is remembered unless create_task is replacing the batch
                  /\ unclaimed_range' = IF create_pending THEN <<>>
                                        ELSE <<r.starting_task_num, r.tasks_this_round>>
                  /\ reaction_timestamps' = IF noticed THEN Purge(reaction_timestamps, m)
                                            ELSE reaction_timestamps
             ELSE /\ noticed
                  /\ out' = << <<"fetch">> >> \o Unresolved(msg_reactions[m], resolved)
                            \o Repeated(msg_reactions[m], resolved)
                            \o (IF SortRaises(eligible, stamps) THEN Critical ELSE <<>>)
                  /\ UNCHANGED unclaimed_range
                  /\ UNCHANGED aborted_range
                  /\ IF SortRaises(eligible, stamps)
                     THEN SetLoop(l, AfterIteration(r))
                     ELSE SetLoop(l, [r EXCEPT !.pc = "settle_grant",
                                               !.eligible = eligible,
                                               !.sort_key = [k \in 1..Len(eligible) |->
                                                               SortKey(eligible[k], stamps)],
                                               !.winners = winners,
                                               !.i = 0,
                                               !.winners_assigned = <<>>])
                  /\ UNCHANGED reaction_timestamps
  /\ UNCHANGED <<botvars, task_allocation_loop, role_removal_tasks,
                 next_message_id, events, create_pending, role_members, batch,
                 settled, settled_tasks, pause_snap>>
  /\ UNCHANGED env_events

\* after winner i: the next winner, or lines 529-539 up to the next await
\* r2: the loop after the winner was processed
NextWinner(l, r2) ==
  IF r2.i < Len(r2.winners)
  THEN /\ SetLoop(l, [r2 EXCEPT !.pc = "settle_grant"])
       /\ UNCHANGED <<current_task, reaction_timestamps, pause_snap>>
  ELSE IF r2.winners_assigned # <<>>
  THEN /\ current_task' = AdvanceCounter(current_task, Len(r2.winners_assigned))
       /\ SetLoop(l, [r2 EXCEPT !.pc = "congrats"])
       /\ pause_snap' = NoSnap
       /\ UNCHANGED reaction_timestamps
  ELSE /\ SetLoop(l, AfterIteration(r2))
       /\ reaction_timestamps' = Purge(reaction_timestamps, r2.message)
       /\ UNCHANGED <<current_task, pause_snap>>

\* the handler of line 526: the winner is skipped, the loop goes on
WinnerFailedMutant(l, r) ==
  /\ SetLoop(l, AfterIteration(r))
  /\ UNCHANGED <<current_task, reaction_timestamps, pause_snap>>
WinnerFailed(l, r) == NextWinner(l, [r EXCEPT !.i = r.i + 1])

\* lines 514-519: asyncio.create_task(schedule_role_removal) comes after
\* get_or_create_role and add_roles, so a grant that raises schedules nothing
ScheduleRemovalMutant(tasks, w, granted) == Append(tasks, <<w, "cycle">>)
ScheduleRemovalNever(tasks, w, granted) == tasks
ScheduleRemoval(tasks, w, granted) ==
  IF granted THEN Append(tasks, <<w, "cycle">>) ELSE tasks

\* line 527: the handler logs the winner it skips
Skipped(w) == << <<"skipped", w>> >>

\* lines 514-519: get_or_create_role, add_roles, schedule the revocation task
SettleGrant(l) ==
  /\ l \in 1..Len(loops) /\ loops[l].status = "running" /\ loops[l].pc = "settle_grant"
  /\ \E granted \in BOOLEAN :
       /\ Fault(~granted)
       /\ LET r == loops[l]
              w == r.winners[r.i + 1]
          IN /\ role_removal_tasks' = ScheduleRemoval(role_removal_tasks, w, granted)
             /\ IF granted
                THEN /\ role_members' = role_members \cup {w}
                     /\ SetLoop(l, [r EXCEPT !.pc = "settle_notify"])
                     /\ out' = << <<"grant", w, TaskNumber(r.starting_task_num, r.i)>> >>
                     /\ UNCHANGED <<current_task, reaction_timestamps, pause_snap>>
                ELSE /\ WinnerFailed(l, r)
                     /\ out' = Skipped(w)
                     /\ UNCHANGED role_members
  /\ UNCHANGED <<configured, announce_channel, total_tasks, winners_per_task,
                 is_paused, stop_requested, interval_minutes, reaction_time,
                 task_allocation_loop, next_message_id, events, create_pending,
                 batch, settled, settled_tasks>>
  /\ UNCHANGED env_events
  /\ UNCHANGED unclaimed_range
  /\ UNCHANGED aborted_range

(* ---------- dm_winner (lines 317-351) ---------- *)
\* dm: what winner_member.send does: "ok", "refused" (discord.Forbidden or
\* HTTPException, caught at line 343) or "error" (any other exception)
DmOutcomes == {"ok", "refused", "error"}

\* chan: announce_channel is set; fallback: the public send of line 346 succeeded
\* the result: what was delivered, and whether the call raises to its caller
DmWinnerMutant(w, t, dm, chan, fallback) ==
  IF dm = "ok" THEN [out |-> << <<"dm", w, t>> >>, raises |-> FALSE]
  ELSE IF dm = "error" \/ (chan /\ ~fallback) THEN [out |-> <<>>, raises |-> TRUE]
  ELSE IF ~chan THEN [out |-> <<>>, raises |-> FALSE]
  ELSE [out |-> << <<"public", w, t>> >>, raises |-> TRUE]
DmWinner(w, t, dm, chan, fallback) ==
  IF dm = "ok" THEN [out |-> << <<"dm", w, t>> >>, raises |-> FALSE]
  ELSE IF dm = "error" THEN [out |-> <<>>, raises |-> TRUE]
  ELSE IF ~chan THEN [out |-> <<>>, raises |-> FALSE]
  ELSE IF fallback THEN [out |-> << <<"public", w, t>> >>, raises |-> FALSE]
  ELSE [out |-> <<>>, raises |-> TRUE]

(* ---------- write_to_sheet (lines 286-315) ---------- *)
\* the ledger as a call finds it: no client or no URL (line 289), a URL with
\* no sheet id (line 296), a sheet with too few rows (line 303), or usable
SheetStates == {"unconfigured", "invalid_url", "out_of_bounds", "ok"}

\* attempt a of the retry loop; fails: how many attempts raise (connection or
\* API errors of open_by_key, get_worksheet, update_cell) before one does not
RECURSIVE SheetAttempt(_, _, _)
SheetAttempt(a, sheet, fails) ==
  IF sheet = "invalid_url" THEN [outcome |-> "skipped", attempts |-> a, raises |-> FALSE]
  ELSE IF a < fails
  THEN IF a < 2 THEN SheetAttempt(a + 1, sheet, fails)
       ELSE [outcome |-> "failed", attempts |-> a + 1, raises |-> FALSE]
  ELSE IF sheet = "out_of_bounds"
  THEN [outcome |-> "skipped", attempts |-> a + 1, raises |-> FALSE]
  ELSE [outcome |-> "written", attempts |-> a + 1, raises |-> FALSE]

WriteToSheetMutant(sheet, fails) ==
  IF sheet = "unconfigured" THEN [outcome |-> "skipped", attempts |-> 0, raises |-> FALSE]
  ELSE [SheetAttempt(0, sheet, fails) EXCEPT !.raises = (fails >= 3)]
WriteToSheet(sheet, fails) ==
  IF sheet = "unconfigured" THEN [outcome |-> "skipped", attempts |-> 0, raises |-> FALSE]
  ELSE SheetAttempt(0, sheet, fails)

\* lines 521-523: dm_winner, write_to_sheet, then the winner is recorded
SettleNotify(l) ==
  /\ l \in 1..Len(loops) /\ loops[l].status = "running" /\ loops[l].pc = "settle_notify"
  /\ \E dm \in DmOutcomes, fallback \in BOOLEAN, sheet \in SheetStates, fails \in 0..3 :
       LET r == loops[l]
           w == r.winners[r.i + 1]
           t == TaskNumber(r.starting_task_num, r.i)
           d == DmWinner(w, t, dm, announce_channel, fallback)
           ws == WriteToSheet(sheet, fails)
       IN /\ Fault(dm # "ok" \/ fails > 0)
          \* one choice per behaviour: inputs that are not read stay at their default
          /\ (dm # "refused" \/ ~announce_channel) => fallback
          /\ d.raises => (sheet = "ok" /\ fails = 0)
          /\ sheet \in {"unconfigured", "invalid_url"} => fails = 0
          /\ IF d.raises
             THEN /\ WinnerFailed(l, r)
                  /\ out' = d.out \o Skipped(w)
                  /\ UNCHANGED <<settled, settled_tasks>>
             ELSE IF ws.raises
             THEN /\ WinnerFailed(l, r)
                  /\ out' = d.out \o << <<"sheet", t, w, ws.outcome>> >> \o Skipped(w)
                  /\ UNCHANGED <<settled, settled_tasks>>
             ELSE /\ NextWinner(l, [r EXCEPT !.i = r.i + 1,
                                             !.winners_assigned = Append(@, <<w, t>>)])
                  /\ out' = d.out \o << <<"sheet", t, w, ws.outcome>> >>
                  /\ settled' = settled + 1
                  /\ settled_tasks' = Settle(settled_tasks, t)
  /\ UNCHANGED <<configured, announce_channel, total_tasks, winners_per_task,
                 is_paused, stop_requested, interval_minutes, reaction_time,
                 task_allocation_loop, role_removal_tasks, next_message_id,
                 events, create_pending, role_members, batch>>
  /\ UNCHANGED env_events
  /\ UNCHANGED unclaimed_range
  /\ UNCHANGED aborted_range

\* lines 532-537 and 559: the congratulation is sent, then the entry is deleted
Congrats(l) ==
  /\ l \in 1..Len(loops) /\ loops[l].status = "running" /\ loops[l].pc = "congrats"
  /\ \E sent \in BOOLEAN :
       /\ Fault(~sent)
       /\ SetLoop(l, AfterIteration(loops[l]))
       /\ out' = IF sent THEN << <<"congrats">> >> ELSE Critical
       /\ reaction_timestamps' = IF sent THEN Purge(reaction_timestamps, loops[l].message)
                                 ELSE reaction_timestamps
  /\ UNCHANGED <<botvars, task_allocation_loop, role_removal_tasks,
                 next_message_id, events, create_pending, role_members, batch,
                 settled, settled_tasks, pause_snap>>
  /\ UNCHANGED env_events
  /\ UNCHANGED unclaimed_range
  /\ UNCHANGED aborted_range

(* ---------- schedule_role_removal (lines 353-371) ---------- *)
\* what the platform does when the sleep of line 356 is over: "left"
\* (fetch_member raises NotFound), "fetch_error" (it raises anything else),
\* "remove_error" (remove_roles raises) or "ok"
RevocationOutcomes == {"left", "fetch_error", "remove_error", "ok"}

\* line 362: remove_roles is called when the member was fetched and holds the role
AttemptsRemovalMutant(holds, rv) == rv \in {"ok", "remove_error"}
AttemptsRemoval(holds, rv) == holds /\ rv \in {"ok", "remove_error"}

\* what the task logs (lines 364-371)
RevocationResult(holds, rv) ==
  IF rv \in {"left", "fetch_error"} THEN rv
  ELSE IF ~holds THEN "absent"
  ELSE IF rv = "ok" THEN "removed" ELSE "remove_error"

RevocationFires ==
  /\ role_removal_tasks # <<>>
  /\ role_removal_tasks' = Tail(role_removal_tasks)
  /\ \E rv \in RevocationOutcomes :
       LET w == Head(role_removal_tasks)[1]
           holds == w \in role_members
       IN /\ Fault(rv # "ok")
          \* one choice per behaviour: remove_roles is not called without the role
          /\ ~holds => rv # "remove_error"
          \* a member who left the server holds no role
          /\ holds => rv # "left"
          /\ role_members' = IF AttemptsRemoval(holds, rv) /\ rv = "ok"
                             THEN role_members \ {w} ELSE role_members
          /\ out' = (IF AttemptsRemoval(holds, rv) THEN << <<"remove_roles", w>> >> ELSE <<>>)
                    \o << <<"revocation", w, RevocationResult(holds, rv)>> >>
  /\ UNCHANGED <<botvars, reaction_timestamps, task_allocation_loop, loops,
                 next_message_id, events, create_pending, msg_reactions, batch,
                 settled, settled_tasks, pause_snap>>
  /\ EnvEvent
  /\ UNCHANGED unclaimed_range
  /\ UNCHANGED aborted_range

(* ---------- reactions: the platform and on_reaction_add (lines 388-397) ---------- *)
React(u, e) ==
  \E m \in WindowMessages(loops) :
    /\ EnvEvent
    /\ <<u, e>> \notin msg_reactions[m]
    /\ Len(events) < MaxEvents
    /\ msg_reactions' = [msg_reactions EXCEPT ![m] = @ \cup {<<u, e>>}]
    /\ events' = Append(events, <<m, u>>)
    /\ UNCHANGED <<botvars, reaction_timestamps, task_allocation_loop,
                   role_removal_tasks, loops, next_message_id, create_pending,
                   role_members, batch, settled, settled_tasks, pause_snap>>
    /\ UNCHANGED faults
    /\ out' = <<>>
    /\ UNCHANGED unclaimed_range
    /\ UNCHANGED aborted_range

Unreact(u, e) ==
  \E m \in WindowMessages(loops) :
    /\ EnvEvent
    /\ <<u, e>> \in msg_reactions[m]
    /\ msg_reactions' = [msg_reactions EXCEPT ![m] = @ \ {<<u, e>>}]
    /\ UNCHANGED <<botvars, reaction_timestamps, task_allocation_loop,
                   role_removal_tasks, loops, next_message_id, events,
                   create_pending, role_members, batch, settled, settled_tasks, pause_snap>>
    /\ UNCHANGED faults
    /\ out' = <<>>
    /\ UNCHANGED unclaimed_range
    /\ UNCHANGED aborted_range

\* datetime.now: not before any timestamp already stored for the round
NowChoices(stamps) ==
  IF DOMAIN stamps = {} THEN {1}
  ELSE LET last == CHOOSE t \in {stamps[x] : x \in DOMAIN stamps} :
                     \A x \in DOMAIN stamps : stamps[x] <= t
       IN {last, last + 1}

RecordReactionMutant(rt, m, u, now) ==
  IF m \in DOMAIN rt THEN [rt EXCEPT ![m] = (u :> now) @@ @] ELSE rt
RecordReaction(rt, m, u, now) ==
  IF m \in DOMAIN rt /\ u \notin DOMAIN rt[m]
  THEN [rt EXCEPT ![m] = (u :> now) @@ @]
  ELSE rt

on_reaction_add ==
  /\ events # <<>>
  /\ LET m == Head(events)[1]
         u == Head(events)[2]
     IN \E now \in NowChoices(IF m \in DOMAIN reaction_timestamps
                              THEN reaction_timestamps[m] ELSE <<>>) :
          reaction_timestamps' = RecordReaction(reaction_timestamps, m, u, now)
  /\ events' = Tail(events)
  /\ UNCHANGED <<botvars, task_allocation_loop, role_removal_tasks, loops,
                 next_message_id, create_pending, msg_reactions, role_members,
                 batch, settled, settled_tasks, pause_snap>>
  /\ UNCHANGED <<env_events, faults>>
  /\ out' = <<>>
  /\ UNCHANGED unclaimed_range
  /\ UNCHANGED aborted_range

(* ---------- slash commands (lines 612-890) ---------- *)
Omitted == -1
TaskChoices == {0, MaxTasks}
WinnerChoices == {Omitted, 0, MaxWinners}
IntervalChoices == {Omitted, 0, 2}
ReactionTimeChoices == {Omitted, 61, 10}

\* create_task, lines 699-710: the batch state is reset; the restart of the
\* loop follows two awaited sends later (create_task_restarts)
create_task(tasks, winners) ==
  /\ EnvEvent
  /\ UNCHANGED faults
  /\ ~create_pending
  /\ Len(loops) < MaxLoops
  /\ configured
  /\ total_tasks' = tasks
  /\ current_task' = 1
  /\ winners_per_task' = IF winners # Omitted THEN winners ELSE DEFAULT_WINNERS_PER_TASK
  /\ is_paused' = FALSE
  /\ stop_requested' = FALSE
  /\ create_pending' = TRUE
  /\ batch' = batch + 1
  /\ settled' = 0
  /\ settled_tasks' = NoneSettled
  /\ pause_snap' = NoSnap
  /\ UNCHANGED <<configured, announce_channel, interval_minutes, reaction_time,
                 reaction_timestamps, task_allocation_loop, role_removal_tasks,
                 loops, next_message_id, events, msg_reactions, role_members>>
  /\ out' = <<>>
  /\ unclaimed_range' = <<>>
  /\ aborted_range' = <<>>

\* create_task, line 714
create_task_restarts ==
  /\ create_pending
  /\ create_pending' = FALSE
  /\ RestartTaskLoop(configured, announce_channel)
  /\ pause_snap' = NoSnap
  /\ UNCHANGED <<botvars, reaction_timestamps, role_removal_tasks,
                 next_message_id, events, batch, settled, settled_tasks>>
  /\ UNCHANGED <<env_events, faults>>
  /\ out' = <<>>
  /\ unclaimed_range' = <<>>
  /\ aborted_range' = <<>>

\* configure_settings, lines 638-676
configure_settings(interval, rtime, chan) ==
  /\ EnvEvent
  /\ UNCHANGED faults
  /\ ~(interval # Omitted /\ interval < 1)
  /\ ~(rtime # Omitted /\ ~(1 <= rtime /\ rtime <= 60))
  /\ interval_minutes' = IF interval # Omitted THEN interval ELSE interval_minutes
  /\ reaction_time' = IF rtime # Omitted THEN rtime ELSE reaction_time
  /\ announce_channel' = (chan \/ announce_channel)
  /\ configured' = TRUE
  /\ IF interval # Omitted /\ is_running(task_allocation_loop)
     THEN /\ Len(loops) < MaxLoops
          /\ RestartTaskLoop(configured', announce_channel')
     ELSE UNCHANGED <<loops, task_allocation_loop, msg_reactions, role_members>>
  /\ pause_snap' = NoSnap
  /\ UNCHANGED <<total_tasks, current_task, winners_per_task, is_paused,
                 stop_requested, reaction_timestamps, role_removal_tasks,
                 next_message_id, events, create_pending, batch, settled, settled_tasks>>
  /\ out' = <<>>
  /\ UNCHANGED unclaimed_range
  /\ UNCHANGED aborted_range

\* stop_tasks, lines 726-728
stop_tasks ==
  /\ EnvEvent
  /\ UNCHANGED faults
  /\ stop_requested' = TRUE
  /\ loops' = LoopStop(loops, task_allocation_loop)
  /\ pause_snap' = NoSnap
  /\ UNCHANGED <<configured, announce_channel, total_tasks, current_task,
                 winners_per_task, is_paused, interval_minutes, reaction_time,
                 reaction_timestamps, task_allocation_loop, role_removal_tasks,
                 next_message_id, events, create_pending, msg_reactions,
                 role_members, batch, settled, settled_tasks>>
  /\ out' = <<>>
  /\ UNCHANGED unclaimed_range
  /\ UNCHANGED aborted_range

\* pause_tasks, lines 741-747
pause_tasks ==
  /\ EnvEvent
  /\ UNCHANGED faults
  /\ is_paused' = TRUE
  /\ pause_snap' = IF is_paused THEN pause_snap
                   ELSE [state |-> "paused", current_task |-> current_task,
                         total_tasks |-> total_tasks,
                         winners_per_task |-> winners_per_task,
                         interval_minutes |-> interval_minutes,
                         reaction_time |-> reaction_time,
                         stop_requested |-> stop_requested,
                         mark |-> next_message_id]
  /\ UNCHANGED <<configured, announce_channel, total_tasks, current_task,
                 winners_per_task, stop_requested, interval_minutes,
                 reaction_time, reaction_timestamps, task_allocation_loop,
                 role_removal_tasks, loops, next_message_id, events,
                 create_pending, msg_reactions, role_members, batch, settled, settled_tasks>>
  /\ out' = <<>>
  /\ UNCHANGED unclaimed_range
  /\ UNCHANGED aborted_range

\* resume_tasks, lines 754-760
resume_tasks ==
  /\ EnvEvent
  /\ UNCHANGED faults
  /\ is_paused' = FALSE
  /\ pause_snap' = IF is_paused /\ pause_snap.state = "paused"
                   THEN [pause_snap EXCEPT !.state = "resumed"]
                   ELSE pause_snap
  /\ UNCHANGED <<configured, announce_channel, total_tasks, current_task,
                 winners_per_task, stop_requested, interval_minutes,
                 reaction_time, reaction_timestamps, task_allocation_loop,
                 role_removal_tasks, loops, next_message_id, events,
                 create_pending, msg_reactions, role_members, batch, settled, settled_tasks>>
  /\ out' = <<>>
  /\ UNCHANGED unclaimed_range
  /\ UNCHANGED aborted_range

\* manual_assign, lines 855-880; granted: get_or_create_role and add_roles succeeded
manual_assign(task_number, u) ==
  /\ EnvEvent
  /\ configured
  /\ total_tasks # 0
  /\ 1 <= task_number /\ task_number <= total_tasks
  /\ Len(role_removal_tasks) < MaxRemovalTasks
  /\ \E granted \in BOOLEAN :
       /\ Fault(~granted)
       /\ IF granted
          THEN /\ role_members' = role_members \cup {u}
               /\ role_removal_tasks' = Append(role_removal_tasks, <<u, "manual">>)
          ELSE UNCHANGED <<role_members, role_removal_tasks>>
  /\ pause_snap' = NoSnap
  /\ UNCHANGED <<botvars, reaction_timestamps, task_allocation_loop, loops,
                 next_message_id, events, create_pending, msg_reactions, batch,
                 settled, settled_tasks>>
  /\ out' = <<>>
  /\ UNCHANGED unclaimed_range
  /\ UNCHANGED aborted_range

(* ---------- reddit_verify (lines 779-846), get_reddit_karma (579-593) ---------- *)
\* a Reddit id as typed: a sequence of pieces; "b" is the blocked name of
\* BLOCKED_REDDIT_IDS, "B" the same name with capitals, "o" another name
IdPrefixes == {<<>>, <<"u", "/">>, <<"/", "u", "/">>}
IdNames == {<<>>, <<"b">>, <<"B">>, <<"o">>}
IdPads == {<<>>, <<" ">>}
RedditIds == {lead \o prefix \o name \o trail :
                lead \in IdPads, prefix \in IdPrefixes, name \in IdNames, trail \in IdPads}
BLOCKED_REDDIT_IDS == {<<"b">>}

StartsWith(s, pat) == Len(s) >= Len(pat) /\ SubSeq(s, 1, Len(pat)) = pat

RECURSIVE Remove(_, _)
\* str.replace(pat, ""): every occurrence found scanning from the left
Remove(s, pat) ==
  IF s = <<>> THEN <<>>
  ELSE IF StartsWith(s, pat) THEN Remove(SubSeq(s, Len(pat) + 1, Len(s)), pat)
  ELSE <<Head(s)>> \o Remove(Tail(s), pat)

RECURSIVE LStrip(_)
LStrip(s) == IF s # <<>> /\ Head(s) = " " THEN LStrip(Tail(s)) ELSE s
RECURSIVE RStrip(_)
RStrip(s) == IF s # <<>> /\ s[Len(s)] = " " THEN RStrip(SubSeq(s, 1, Len(s) - 1)) ELSE s
Strip(s) == RStrip(LStrip(s))

Lower(s) == [k \in 1..Len(s) |-> IF s[k] = "B" THEN "b" ELSE s[k]]

\* line 789
CleanUsername(reddit_id) == Strip(Remove(Remove(reddit_id, <<"u", "/">>), <<"/", "u", "/">>))

\* line 791
IsBlockedMutant(clean) == clean \in BLOCKED_REDDIT_IDS
IsBlocked(clean) == Lower(clean) \in BLOCKED_REDDIT_IDS

\* get_reddit_karma: "unconfigured" (no API credentials), "error" (the lookup
\* raised) or "ok" with the two scores
LookupOutcomes == {"unconfigured", "error", "ok"}
LinkKarmaChoices == {0, 60, 100}
CommentKarmaChoices == {-1, 39, 40}

\* line 809
MeetsMinimum(link_karma, comment_karma) ==
  link_karma + comment_karma >= MINIMUM_REDDIT_KARMA

\* the outputs: the call (the caller, whether the cleaned name is a blocked
\* one whatever its capitals, the lookup and the total karma), the verified
\* role when it is granted, the reply
\* guild: used in a server; member: get_member_safely found the caller;
\* granted: "role_failed" (get_or_create_role or add_roles raised), "reply_failed"
\* (the role was added and the reply at line 813 raised) or "ok"
GrantOutcomes == {"role_failed", "reply_failed", "ok"}
reddit_verify(u, reddit_id, guild, member, lookup, link_karma, comment_karma, granted) ==
  LET clean == CleanUsername(reddit_id)
      total == IF lookup = "ok" THEN link_karma + comment_karma ELSE 0
      reply ==
        IF ~guild THEN <<"reply", "server_only">>
        ELSE IF IsBlocked(clean) THEN <<"reply", "not_eligible">>
        ELSE IF clean = <<>> THEN <<"reply", "no_username">>
        ELSE IF ~member THEN <<"reply", "no_member">>
        ELSE IF lookup # "ok" THEN <<"reply", "lookup_failed">>
        ELSE IF ~MeetsMinimum(link_karma, comment_karma) THEN <<"reply", "below_minimum">>
        ELSE IF granted # "ok" THEN <<"reply", "final_step_error">>
        ELSE <<"reply", "verified">>
      role_added == reply[2] = "verified"
                    \/ (reply[2] = "final_step_error" /\ granted = "reply_failed")
      call == <<"reddit_verify", u, Lower(clean) \in BLOCKED_REDDIT_IDS, lookup, total>>
  IN /\ EnvEvent
     /\ out' = IF role_added
               THEN <<call, <<"verified_role", u>>, reply>>
               ELSE <<call, reply>>
     /\ UNCHANGED <<botvars, reaction_timestamps, task_allocation_loop,
                    role_removal_tasks, loops, next_message_id, events,
                    create_pending, msg_reactions, role_members, batch, settled, settled_tasks,
                    pause_snap, faults, unclaimed_range, aborted_range>>

\* the allocation state reddit_verify is called in: a bot that was never
\* configured, or a configured one at some point of a batch; the call is the
\* last event of the budget
BatchPoints == {<<0, 1>>, <<MaxTasks, 1>>, <<MaxTasks, MaxTasks>>, <<MaxTasks, MaxTasks + 1>>}
VerifyInit ==
  /\ configured \in BOOLEAN
  /\ announce_channel = configured
  /\ \E bp \in BatchPoints :
       /\ total_tasks = bp[1] /\ current_task = bp[2]
       /\ ~configured => bp = <<0, 1>>
  /\ winners_per_task = DEFAULT_WINNERS_PER_TASK
  /\ is_paused \in BOOLEAN
  /\ stop_requested \in BOOLEAN
  /\ interval_minutes = DEFAULT_INTERVAL_MINUTES
  /\ reaction_time = DEFAULT_REACTION_TIME_SECONDS
  /\ reaction_timestamps = <<>>
  /\ task_allocation_loop = None
  /\ role_removal_tasks = <<>>
  /\ loops = <<>>
  /\ next_message_id = 1
  /\ events = <<>>
  /\ create_pending = FALSE
  /\ msg_reactions = <<>>
  /\ role_members = {}
  /\ batch = 0
  /\ settled = 0
  /\ settled_tasks = NoneSettled
  /\ pause_snap = NoSnap
  /\ env_events = MaxEnvEvents - 1
  /\ faults = 0
  /\ out = <<>>
  /\ unclaimed_range = <<>>
  /\ aborted_range = <<>>

VerifyNext ==
  /\ env_events < MaxEnvEvents
  /\ \E u \in Users, reddit_id \in RedditIds, guild \in BOOLEAN, member \in BOOLEAN,
        lookup \in LookupOutcomes, link_karma \in LinkKarmaChoices,
        comment_karma \in CommentKarmaChoices, granted \in GrantOutcomes :
       \* one choice per behaviour: inputs that are not read stay at their default
       /\ lookup # "ok" => (link_karma = 0 /\ comment_karma = -1)
       /\ ~guild => member
       /\ ~(guild /\ member /\ lookup = "ok") => granted = "ok"
       /\ reddit_verify(u, reddit_id, guild, member, lookup, link_karma, comment_karma, granted)

VerifySpec == VerifyInit /\ [][VerifyNext]_vars

(* ---------- write_to_sheet call by call (lines 286-315) ---------- *)
\* sheet_url: empty, one extract_sheet_id finds no id in, or a valid one
SheetUrls == {"none", "invalid", "valid"}
\* worksheet.row_count: the header row only, or rows for all but the last
\* task, or rows for every task
RowCounts == {1, MaxTasks, MaxTasks + 1}
\* results[a + 1]: whether an API call of attempt a (open_by_key,
\* get_worksheet, update_cell) raises
AttemptResults == [1..3 -> {"raises", "ok"}]

\* line 313: asyncio.sleep(2 ** attempt)
SheetWaitMutant(attempt) == 2
SheetWait(attempt) == 2^attempt

\* what attempt a (0-based, as range(3) counts) and the ones after it do
RECURSIVE SheetTrace(_, _, _, _, _, _)
SheetTrace(a, task_number, winner_name, url, row_count, results) ==
  IF a >= 3 THEN <<>>
  ELSE IF url = "invalid" THEN << <<"invalid_url", a + 1>> >>
  ELSE IF results[a + 1] = "raises"
  THEN << <<"attempt_failed", a + 1>> >>
       \o (IF a < 2
           THEN << <<"sleep", SheetWait(a)>> >>
                \o SheetTrace(a + 1, task_number, winner_name, url, row_count, results)
           ELSE << <<"critical">> >>)
  ELSE IF task_number + 1 > row_count THEN << <<"out_of_bounds", a + 1>> >>
  ELSE << <<"update_cell", task_number + 1, 4, winner_name>> >>

\* gc: the gspread client was created
write_to_sheet(task_number, winner_name, gc, url, row_count, results) ==
  /\ EnvEvent
  /\ out' = << <<"write_to_sheet", task_number, winner_name, gc, url, row_count, results>> >>
            \o (IF ~gc \/ url = "none" THEN << <<"unconfigured">> >>
                ELSE SheetTrace(0, task_number, winner_name, url, row_count, results))
  /\ UNCHANGED <<botvars, reaction_timestamps, task_allocation_loop,
                 role_removal_tasks, loops, next_message_id, events,
                 create_pending, msg_reactions, role_members, batch, settled, settled_tasks,
                 pause_snap, faults, unclaimed_range, aborted_range>>

\* one call, from the allocation states of VerifyInit
SheetNext ==
  /\ env_events < MaxEnvEvents
  /\ \E task_number \in 1..MaxTasks, winner_name \in Users, gc \in BOOLEAN,
        url \in SheetUrls, row_count \in RowCounts, results \in AttemptResults :
       write_to_sheet(task_number, winner_name, gc, url, row_count, results)

SheetSpec == VerifyInit /\ [][SheetNext]_vars

(* ---------- the program ---------- *)
Next ==
  \/ on_ready
  \/ \E l \in 1..MaxLoops : LoopStoppedBeforeStart(l)
  \/ \E l \in 1..MaxLoops : TickSkipped(l)
  \/ \E l \in 1..MaxLoops : TickCompleted(l)
  \/ \E l \in 1..MaxLoops : TickAnnounces(l)
  \/ \E l \in 1..MaxLoops : WindowStopped(l)
  \/ \E l \in 1..MaxLoops : WindowElapsed(l)
  \/ \E l \in 1..MaxLoops : SettleGrant(l)
  \/ \E l \in 1..MaxLoops : SettleNotify(l)
  \/ \E l \in 1..MaxLoops : Congrats(l)
  \/ RevocationFires
  \/ \E u \in Users, e \in Emojis : React(u, e)
  \/ \E u \in Users, e \in Emojis : Unreact(u, e)
  \/ on_reaction_add
  \/ \E tasks \in TaskChoices, winners \in WinnerChoices : create_task(tasks, winners)
  \/ create_task_restarts
  \/ \E interval \in IntervalChoices, rtime \in ReactionTimeChoices, chan \in BOOLEAN :
       configure_settings(interval, rtime, chan)
  \/ stop_tasks
  \/ pause_tasks
  \/ resume_tasks
  \/ \E task_number \in 0..MaxTasks, u \in Users : manual_assign(task_number, u)

Spec == Init /\ [][Next]_vars

(* ---------- a batch left to run: the cycle under its scheduling ---------- *)
\* the state after on_ready found the channels and create_task started a
\* batch and its loop: two events of the budget are spent
LiveInit ==
  /\ configured = TRUE
  /\ announce_channel = TRUE
  /\ total_tasks = MaxTasks
  /\ current_task = 1
  /\ winners_per_task \in 1..MaxWinners
  /\ is_paused = FALSE
  /\ stop_requested = FALSE
  /\ interval_minutes = DEFAULT_INTERVAL_MINUTES
  /\ reaction_time = DEFAULT_REACTION_TIME_SECONDS
  /\ reaction_timestamps = <<>>
  /\ task_allocation_loop = 1
  /\ role_removal_tasks = <<>>
  /\ loops = << IdleLoop("running", "start", FALSE) >>
  /\ next_message_id = 1
  /\ events = <<>>
  /\ create_pending = FALSE
  /\ msg_reactions = <<>>
  /\ role_members = {}
  /\ batch = 1
  /\ settled = 0
  /\ settled_tasks = NoneSettled
  /\ pause_snap = NoSnap
  /\ env_events = 2
  /\ faults = 0
  /\ out = <<>>
  /\ unclaimed_range = <<>>
  /\ aborted_range = <<>>

\* a step of the loop: the timer fires, or the coroutine resumes from an await
CycleStep ==
  \/ \E l \in 1..MaxLoops : TickSkipped(l)
  \/ \E l \in 1..MaxLoops : TickCompleted(l)
  \/ \E l \in 1..MaxLoops : TickAnnounces(l)
  \/ \E l \in 1..MaxLoops : WindowElapsed(l)
  \/ \E l \in 1..MaxLoops : SettleGrant(l)
  \/ \E l \in 1..MaxLoops : SettleNotify(l)
  \/ \E l \in 1..MaxLoops : Congrats(l)

\* the batch is never stopped, replaced or reconfigured
LiveNext ==
  \/ CycleStep
  \/ RevocationFires
  \/ \E u \in Users, e \in Emojis : React(u, e)
  \/ on_reaction_add
  \/ pause_tasks
  \/ resume_tasks

\* discord.ext.tasks fires every tick and asyncio resumes every coroutine whose
\* await is over: the cycle and the revocation tasks always get to run
LiveSpec ==
  /\ LiveInit /\ [][LiveNext]_vars
  /\ WF_vars(CycleStep)
  /\ WF_vars(RevocationFires)

(* ======================= properties ======================= *)
LoopIds == 1..Len(loops)
Selected(r) == r.status = "running" /\ r.pc \in {"settle_grant", "settle_notify", "congrats"}
Min3(a, b, c) == Min(a, Min(b, c))

\* C1: in every round that reached winner selection, the number of winners is
\* min(winners_per_task, total_tasks - current_task + 1, number of eligible
\* reactors), the three read when the round started
C1_WinnerCount ==
  \A l \in LoopIds :
    Selected(loops[l]) =>
      Len(loops[l].winners) =
        Min3(loops[l].round_winners_per_task, loops[l].remaining_tasks,
             Len(loops[l].eligible))

\* two eligible reactors and two remaining tasks, one winner per task
C1_Witness ==
  \E l \in LoopIds :
    /\ Selected(loops[l])
    /\ Len(loops[l].eligible) = 2
    /\ Len(loops[l].winners) = 1
    /\ loops[l].round_winners_per_task = 1
    /\ loops[l].remaining_tasks = 2

\* C2: the winners are in non-decreasing order of the timestamp the sort read,
\* winners[0] has the least timestamp of all eligible reactors, and no
\* eligible reactor left out has a timestamp below a winner's
KeyOf(r, u) == r.sort_key[CHOOSE k \in 1..Len(r.eligible) : r.eligible[k] = u]
C2_WinnerOrder ==
  \A l \in LoopIds :
    Selected(loops[l]) =>
      LET r == loops[l] IN
      /\ \A j, k \in 1..Len(r.winners) :
           j < k => KeyOf(r, r.winners[j]) <= KeyOf(r, r.winners[k])
      /\ \A u \in SeqSet(r.eligible) : KeyOf(r, r.winners[1]) <= KeyOf(r, u)
      /\ \A u \in SeqSet(r.eligible) \ SeqSet(r.winners) :
           \A w \in SeqSet(r.winners) : KeyOf(r, w) <= KeyOf(r, u)
      /\ SeqSet(r.winners) \subseteq SeqSet(r.eligible)

C2_Witness ==
  \E l \in LoopIds :
    /\ Selected(loops[l])
    /\ loops[l].eligible = <<1, 2>>
    /\ loops[l].winners = <<2>>
    /\ loops[l].sort_key = <<2, 1>>

\* the step of WindowElapsed that selects winners in loop l
Selects(l) ==
  /\ l \in 1..Len(loops) /\ l \in 1..Len(loops')
  /\ loops[l].status = "running" /\ loops[l].pc = "window"
  /\ loops'[l].status = "running" /\ loops'[l].pc = "settle_grant"

\* C3: no winner holds the cooldown role when the round resolves, and no
\* winner is a member who won an earlier round and whose revocation task of
\* that win is still pending
C3_CooldownNeverWins ==
  [][\A l \in 1..MaxLoops :
       Selects(l) =>
         /\ SeqSet(loops'[l].winners) \cap role_members = {}
         /\ \A k \in 1..Len(role_removal_tasks) :
              role_removal_tasks[k][2] = "cycle" =>
                role_removal_tasks[k][1] \notin SeqSet(loops'[l].winners)]_vars

\* the part of C3 the code keeps: holders of the role at resolution never win
C3_HolderNeverWins ==
  [][\A l \in 1..MaxLoops :
       Selects(l) => SeqSet(loops'[l].winners) \cap role_members = {}]_vars

\* C4: within one batch current_task never decreases
C4_CounterMonotonic == [][batch' = batch => current_task' >= current_task]_vars

C4_Witness == batch >= 1 /\ current_task = 3 /\ env_events = MaxEnvEvents

NoRoundOpen == \A l \in LoopIds : ~RoundOpen(loops[l])

\* C5: whenever no round is open, current_task is 1 plus the number of winners
\* whose settlement completed since the batch was created
C5_CounterEqualsSettled == NoRoundOpen => current_task = 1 + settled

\* C6: a stored first-reaction timestamp never changes while its round's entry
\* exists, and delivering an event of a candidate already recorded changes
\* nothing in the map
C6_FirstReactionKept ==
  [][/\ \A m \in DOMAIN reaction_timestamps :
          m \in DOMAIN reaction_timestamps' =>
            \A u \in DOMAIN reaction_timestamps[m] :
              /\ u \in DOMAIN reaction_timestamps'[m]
              /\ reaction_timestamps'[m][u] = reaction_timestamps[m][u]
     /\ (/\ events # <<>> /\ events' = Tail(events)
         /\ Head(events)[1] \in DOMAIN reaction_timestamps
         /\ Head(events)[2] \in DOMAIN reaction_timestamps[Head(events)[1]])
          => reaction_timestamps' = reaction_timestamps]_vars

\* both reactions of user 1 were delivered, the second one after another
\* candidate was stamped
C6_Witness ==
  \E m \in DOMAIN msg_reactions :
    /\ {<<1, "check">>, <<1, "other">>} \subseteq msg_reactions[m]
    /\ events = <<>>
    /\ m \in DOMAIN reaction_timestamps
    /\ 1 \in DOMAIN reaction_timestamps[m]

\* C7: pause then resume, nothing else in between: no round is announced while
\* paused, the counters and the configuration are what they were before the
\* pause, is_paused is false again, and the first round announced after the
\* resume offers the range computed from the values before the pause
SnapMatches ==
  /\ current_task = pause_snap.current_task
  /\ total_tasks = pause_snap.total_tasks
  /\ winners_per_task = pause_snap.winners_per_task
  /\ interval_minutes = pause_snap.interval_minutes
  /\ reaction_time = pause_snap.reaction_time
  /\ stop_requested = pause_snap.stop_requested

C7_PauseResumeRoundTrip ==
  /\ pause_snap.state = "paused" =>
       /\ is_paused
       /\ SnapMatches
       /\ next_message_id = pause_snap.mark
  /\ pause_snap.state = "resumed" =>
       /\ ~is_paused
       /\ SnapMatches
       /\ \A l \in LoopIds :
            (RoundOpen(loops[l]) /\ loops[l].message >= pause_snap.mark) =>
              /\ loops[l].starting_task_num = pause_snap.current_task
              /\ loops[l].tasks_this_round =
                   Min(pause_snap.winners_per_task,
                       pause_snap.total_tasks - pause_snap.current_task + 1)

C7_Witness ==
  /\ pause_snap.state = "resumed"
  /\ \E l \in LoopIds : RoundOpen(loops[l]) /\ loops[l].message >= pause_snap.mark

\* C8: at most one round is open at any time, and it belongs to the loop
\* object the bot holds; a loop replaced by a restart does nothing more
C8_SingleRound ==
  /\ \A l1, l2 \in LoopIds : (RoundOpen(loops[l1]) /\ RoundOpen(loops[l2])) => l1 = l2
  /\ \A l \in LoopIds : loops[l].status = "running" => l = task_allocation_loop

C8_Witness ==
  /\ Len(loops) = 2
  /\ loops[1].status = "cancelled"
  /\ loops[1].pc \in {"window", "settle_grant", "settle_notify", "congrats"}
  /\ RoundOpen(loops[2])

\* C9: the entry of a round is gone once the round has ended: the map holds
\* entries of open rounds only, so at most one, and none when no round is open
C9_EntryPurged ==
  /\ DOMAIN reaction_timestamps \subseteq OpenMessages
  /\ Cardinality(DOMAIN reaction_timestamps) <= 1

\* C10: a step of winner i's pipeline, failed or not, leads to the rest of the
\* pipeline, to winner i+1, or after the last winner to the counter update;
\* the round is never left with winners unprocessed, and it then purges its
\* entry: at once when no winner was settled, else after the congratulation
\* message, provided that send itself does not fail
C10_FaultIsolation ==
  [][\A l \in 1..MaxLoops :
       (/\ l \in 1..Len(loops) /\ l \in 1..Len(loops')
        /\ loops[l].status = "running"
        /\ loops[l].pc \in {"settle_grant", "settle_notify", "congrats"}
        /\ <<loops'[l].pc, loops'[l].i>> # <<loops[l].pc, loops[l].i>>
        /\ loops'[l].status # "cancelled")
       =>
       LET r == loops[l]
           r2 == loops'[l]
       IN \/ r.pc = "settle_grant" /\ r2.pc = "settle_notify" /\ r2.i = r.i
          \/ /\ r.i + 1 < Len(r.winners)
             /\ r2.pc = "settle_grant" /\ r2.i = r.i + 1 /\ r2.winners = r.winners
          \/ /\ r.i + 1 = Len(r.winners)
             /\ \/ /\ r2.pc = "congrats" /\ r2.winners_assigned # <<>>
                   /\ current_task' = current_task + Len(r2.winners_assigned)
                \/ /\ r2.pc \in {"sleep", "end"} /\ r.winners_assigned = <<>>
                   /\ r.message \notin DOMAIN reaction_timestamps'
                   /\ current_task' = current_task
          \/ /\ r.pc = "congrats" /\ r2.pc \in {"sleep", "end"}
             /\ current_task' = current_task
             /\ faults' = faults => r.message \notin DOMAIN reaction_timestamps']_vars

\* winner 0 failed, winner 1 was settled and the counter advanced by one
C10_Witness ==
  \E l \in LoopIds :
    /\ loops[l].status = "running" /\ loops[l].pc = "congrats"
    /\ Len(loops[l].winners) = 2
    /\ Len(loops[l].winners_assigned) = 1
    /\ loops[l].winners_assigned[1][1] = loops[l].winners[2]
    /\ current_task = loops[l].starting_task_num + 1

(* ---------- outputs of the last step ---------- *)
Emitted(kind) == \E k \in 1..Len(out) : out[k][1] = kind
EmittedNext(kind) == \E k \in 1..Len(out') : out'[k][1] = kind

EntryNext(kind) == out'[CHOOSE k \in 1..Len(out') : out'[k][1] = kind]
NoSettlementOutput ==
  ~(EmittedNext("grant") \/ EmittedNext("dm") \/ EmittedNext("public")
    \/ EmittedNext("sheet") \/ EmittedNext("congrats"))

\* loop l takes the step that leaves the await p, and is not cancelled by it
Leaves(l, p) ==
  /\ l \in 1..Len(loops) /\ l \in 1..Len(loops')
  /\ loops[l].status = "running" /\ loops[l].pc = p
  /\ loops'[l].status # "cancelled" /\ loops'[l].pc # p

\* a tick of the timer ran the cycle and took the branch named
Ticked(branch) == out' # <<>> /\ out'[1] = <<"tick", branch>>
NoTimerRunning == \A l \in 1..Len(loops') : loops'[l].status # "running"

\* C11: a round that resolves with no eligible reactor grants no role, sends
\* no notification, writes nothing to the ledger, sends the unclaimed notice
\* (unless that send fails), leaves current_task and the rest of the batch
\* state unchanged, and the next round announced offers the same range
C11_Unclaimed ==
  [][/\ \A l \in 1..MaxLoops :
          (Leaves(l, "window") /\ unclaimed_range' # <<>>) =>
            /\ unclaimed_range' = <<loops[l].starting_task_num, loops[l].tasks_this_round>>
            /\ NoSettlementOutput
            /\ faults' = faults =>
                 /\ out'[1] = <<"fetch">>
                 /\ out'[Len(out')] = <<"unclaimed", loops[l].starting_task_num,
                                                     loops[l].tasks_this_round>>
                 /\ ~EmittedNext("critical")
            /\ UNCHANGED <<botvars, role_members, role_removal_tasks, settled>>
     /\ (EmittedNext("announce") /\ unclaimed_range # <<>>) =>
          EntryNext("announce") = <<"announce", unclaimed_range[1], unclaimed_range[2]>>]_vars

\* the second round of a batch is announced after a first round that ended
\* unclaimed with its notice sent
C11_Witness ==
  /\ Emitted("announce")
  /\ next_message_id = 3 /\ batch = 1 /\ settled = 0 /\ faults = 0
  /\ DOMAIN reaction_timestamps = {2}

\* C12: when stop_requested is set as the reaction window elapses, the round
\* is abandoned: nothing is fetched, no winner is selected, no role is
\* granted, nothing is sent or written, current_task is not advanced
C12_StopAfterWindow ==
  [][\A l \in 1..MaxLoops :
       (Leaves(l, "window") /\ stop_requested) =>
         /\ out' = << <<"halt">> >>
         /\ loops'[l].pc \in {"sleep", "end"}
         /\ loops'[l].winners = <<>>
         /\ UNCHANGED <<botvars, role_members, role_removal_tasks, settled>>]_vars

\* a round with a recorded reaction was abandoned at the check
C12_Witness ==
  /\ Emitted("halt")
  /\ \E m \in DOMAIN reaction_timestamps : DOMAIN reaction_timestamps[m] # {}

\* the step after the last winner that updates the counter
CounterStep(l) == Leaves(l, "settle_notify") /\ loops'[l].pc = "congrats"

\* C13: an announced round offers the range that starts at current_task and
\* has min(winners_per_task, total_tasks - current_task + 1) tasks; when all
\* k winners of a round settle, they get the tasks start .. start + k - 1 in
\* order and current_task becomes start + k (current_task as the round read it)
C13_TaskRange ==
  [][/\ EmittedNext("announce") =>
          /\ EntryNext("announce") =
               <<"announce", current_task,
                 Min(winners_per_task, total_tasks - current_task + 1)>>
          /\ \A l \in 1..MaxLoops :
               (Leaves(l, "start") \/ Leaves(l, "sleep")) /\ loops'[l].pc = "window" =>
                 /\ loops'[l].starting_task_num = current_task
                 /\ loops'[l].tasks_this_round =
                      Min(winners_per_task, total_tasks - current_task + 1)
     /\ \A l \in 1..MaxLoops :
          (/\ CounterStep(l)
           /\ current_task = loops[l].starting_task_num
           /\ Len(loops'[l].winners_assigned) = Len(loops'[l].winners)) =>
            /\ \A k \in 1..Len(loops'[l].winners) :
                 loops'[l].winners_assigned[k] =
                   <<loops'[l].winners[k], loops[l].starting_task_num + k - 1>>
            /\ current_task' = loops[l].starting_task_num + Len(loops'[l].winners)]_vars

\* two tasks were offered to two winners, one reactor settled, and the next
\* round offers the task left
C13_Witness ==
  /\ batch = 1 /\ settled = 1 /\ total_tasks = 2 /\ winners_per_task = 2
  /\ out = << <<"tick", "round">>, <<"announce", 2, 1>> >>

\* C14: when the private message is refused and the public fallback is sent,
\* the notice names the winner and the task, write_to_sheet is called with
\* the same task number, and the winner is counted as settled
C14_DmFallback ==
  [][\A l \in 1..MaxLoops :
       (Leaves(l, "settle_notify") /\ EmittedNext("public")) =>
         LET w == loops[l].winners[loops[l].i + 1]
             t == loops[l].starting_task_num + loops[l].i
         IN /\ Len(out') = 2
            /\ out'[1] = <<"public", w, t>>
            /\ out'[2][1] = "sheet"
            /\ SubSeq(out'[2], 1, 3) = <<"sheet", t, w>>
            /\ loops'[l].winners_assigned = Append(loops[l].winners_assigned, <<w, t>>)
            /\ settled' = settled + 1]_vars

C14_Witness ==
  /\ Len(out) = 2 /\ out[1][1] = "public"
  /\ out[2][1] = "sheet" /\ out[2][4] = "written"
  /\ \E l \in LoopIds : loops[l].pc = "congrats" /\ Len(loops[l].winners_assigned) = 1

\* C15: a ledger write that fails three times or is skipped does not raise:
\* the winner is counted as settled, current_task advances for that winner
\* after the last one, and the role and its revocation task stay
C15_LedgerFailure ==
  [][\A l \in 1..MaxLoops :
       (/\ Leaves(l, "settle_notify") /\ EmittedNext("sheet")
        /\ EntryNext("sheet")[4] # "written") =>
         LET w == loops[l].winners[loops[l].i + 1]
             t == loops[l].starting_task_num + loops[l].i
         IN /\ EntryNext("sheet") \in {<<"sheet", t, w, "failed">>, <<"sheet", t, w, "skipped">>}
            /\ loops'[l].winners_assigned = Append(loops[l].winners_assigned, <<w, t>>)
            /\ settled' = settled + 1
            /\ loops[l].i + 1 = Len(loops[l].winners) =>
                 /\ loops'[l].pc = "congrats"
                 /\ current_task' = current_task + Len(loops'[l].winners_assigned)
            /\ UNCHANGED <<role_members, role_removal_tasks>>]_vars

\* the only winner's ledger write failed three times and the counter advanced
C15_Witness ==
  /\ out # <<>> /\ out[Len(out)][1] = "sheet" /\ out[Len(out)][4] = "failed"
  /\ \E l \in LoopIds :
       /\ loops[l].pc = "congrats"
       /\ Len(loops[l].winners_assigned) = 1
       /\ current_task = loops[l].starting_task_num + 1

\* C16: reddit_verify grants the verified role only for an identity outside
\* the blocked set whose lookup succeeded with link + comment karma of at
\* least 100; it never writes to the ledger and leaves the allocation state,
\* the cooldown role and the loop as they were
C16_VerifyGate ==
  [][/\ EmittedNext("reddit_verify") =>
          LET call == out'[1]
          IN /\ EmittedNext("verified_role") =>
                  /\ ~call[3]
                  /\ call[4] = "ok"
                  /\ call[5] >= 100
                  /\ out'[2] = <<"verified_role", call[2]>>
             /\ ~EmittedNext("sheet")
             /\ UNCHANGED <<botvars, reaction_timestamps, task_allocation_loop,
                            role_removal_tasks, loops, role_members, settled>>]_vars

\* a call with karma 99 was refused and said so
C16_Witness ==
  /\ Len(out) = 2
  /\ out[1][1] = "reddit_verify" /\ out[1][4] = "ok" /\ out[1][5] = 99
  /\ out[2] = <<"reply", "below_minimum">>
  /\ stop_requested /\ current_task = MaxTasks

\* C17: a tick that finds stop_requested announces nothing, changes no
\* counter, and leaves no timer running
C17_StopTickHalts ==
  [][Ticked("stop") =>
       /\ out' = << <<"tick", "stop">> >>
       /\ UNCHANGED <<botvars, reaction_timestamps, next_message_id, settled>>
       /\ NoTimerRunning]_vars

\* the part of C17 the code keeps: such a tick changes nothing
C17_StopTickNoOp ==
  [][Ticked("stop") =>
       /\ out' = << <<"tick", "stop">> >>
       /\ UNCHANGED <<botvars, reaction_timestamps, next_message_id, settled>>]_vars

\* C18: a tick that finds the bot paused, unconfigured or without announce
\* channel sends nothing, creates no entry, changes no counter and no flag,
\* and the timer keeps running
C18_SkippedTickNoOp ==
  [][(Ticked("paused") \/ Ticked("unconfigured")) =>
       /\ Len(out') = 1
       /\ UNCHANGED <<botvars, reaction_timestamps, next_message_id, settled,
                      role_members, role_removal_tasks, task_allocation_loop>>
       /\ ~NoTimerRunning]_vars

\* C18 as the code keeps it: such a tick sends nothing, creates no entry,
\* changes no counter and no flag, and does not halt the timer: a loop that
\* no earlier stop_tasks had marked to end is still running after the tick
C18_SkippedTickFrame ==
  [][(Ticked("paused") \/ Ticked("unconfigured")) =>
       /\ Len(out') = 1
       /\ UNCHANGED <<botvars, reaction_timestamps, next_message_id, settled,
                      role_members, role_removal_tasks, task_allocation_loop>>
       /\ Len(loops') = Len(loops)
       /\ \A l \in 1..Len(loops) :
            (loops[l].status = "running" /\ ~loops[l].stop_next) =>
              loops'[l].status = "running"]_vars

\* a paused tick of an open batch left the timer asleep until the next tick
C18_Witness ==
  /\ out = << <<"tick", "paused">> >>
  /\ is_paused /\ batch = 1 /\ current_task = 1 /\ total_tasks = MaxTasks
  /\ \E l \in LoopIds : loops[l].status = "running" /\ loops[l].pc = "sleep"

\* C19: a tick with current_task > total_tasks, the bot neither stopped,
\* paused nor unconfigured, announces nothing, sends the completion notice
\* (unless that send fails), leaves no timer running and keeps current_task;
\* and no round is announced while current_task > total_tasks
C19_CompletedTick ==
  [][/\ (/\ out' # <<>> /\ out'[1][1] = "tick"
         /\ ~stop_requested /\ ~is_paused /\ configured /\ announce_channel
         /\ current_task > total_tasks) =>
          /\ ~EmittedNext("announce")
          /\ faults' = faults => out' = << <<"tick", "completed">>, <<"completion">> >>
          /\ NoTimerRunning
          /\ UNCHANGED <<botvars, reaction_timestamps, next_message_id>>
     /\ EmittedNext("announce") => current_task <= total_tasks]_vars

\* the batch was assigned to the end and the tick after it completed it
C19_Witness ==
  /\ out = << <<"tick", "completed">>, <<"completion">> >>
  /\ settled = MaxTasks /\ current_task = MaxTasks + 1

\* C20: a tick that computes tasks_this_round <= 0 while tasks remain behaves
\* as the completed case: nothing announced, no timer running, completion
\* notice sent
C20_NoTasksTick ==
  [][(/\ out' # <<>> /\ out'[1][1] = "tick"
      /\ ~stop_requested /\ ~is_paused /\ configured /\ announce_channel
      /\ current_task <= total_tasks
      /\ Min(winners_per_task, total_tasks - current_task + 1) <= 0) =>
       /\ ~EmittedNext("announce")
       /\ NoTimerRunning
       /\ EmittedNext("completion")]_vars

(* ---------- the settlement of a round, winner by winner ---------- *)
SettlementKinds == {"grant", "dm", "public", "sheet"}
EntryWinner(e) == IF e[1] = "sheet" THEN e[3] ELSE e[2]
EntryTask(e) == IF e[1] = "sheet" THEN e[2] ELSE e[3]
Settling(r) == r.status = "running" /\ r.pc \in {"settle_grant", "settle_notify"}

\* C21: the winners of a round are settled one at a time in selection order:
\* every grant, notification and ledger call of a step is for the winner at
\* the round's index i and for task starting_task_num + i, the grant only
\* from the grant step and the rest only from the step after it, and the
\* index moves on by one only when that winner's pipeline ended
C21_OneAtATime ==
  [][/\ \A k \in 1..Len(out') :
          out'[k][1] \in SettlementKinds =>
            \E l \in 1..Len(loops) :
              LET r == loops[l]
              IN /\ r.status = "running"
                 /\ r.pc = IF out'[k][1] = "grant" THEN "settle_grant" ELSE "settle_notify"
                 /\ r.i < Len(r.winners)
                 /\ EntryWinner(out'[k]) = r.winners[r.i + 1]
                 /\ EntryTask(out'[k]) = r.starting_task_num + r.i
     /\ \A l \in 1..MaxLoops :
          (/\ l \in 1..Len(loops) /\ l \in 1..Len(loops')
           /\ Settling(loops[l]) /\ Settling(loops'[l])) =>
            /\ loops'[l].winners = loops[l].winners
            /\ loops'[l].starting_task_num = loops[l].starting_task_num
            /\ \/ /\ loops'[l].pc = loops[l].pc /\ loops'[l].i = loops[l].i
                  /\ loops'[l].winners_assigned = loops[l].winners_assigned
               \/ /\ loops[l].pc = "settle_grant" /\ loops'[l].pc = "settle_notify"
                  /\ loops'[l].i = loops[l].i /\ EmittedNext("grant")
               \/ /\ loops'[l].pc = "settle_grant" /\ loops'[l].i = loops[l].i + 1
                  /\ loops[l].pc = "settle_notify" \/ ~EmittedNext("grant")]_vars

\* the second winner of a round is granted the second task after the first
\* winner was settled
C21_Witness ==
  /\ Len(out) = 1 /\ out[1][1] = "grant"
  /\ \E l \in LoopIds :
       /\ loops[l].pc = "settle_notify" /\ loops[l].i = 1
       /\ Len(loops[l].winners_assigned) = 1
       /\ out[1] = <<"grant", loops[l].winners[2], loops[l].starting_task_num + 1>>

\* C22: when the role grant of a winner fails, nothing else is done for that
\* winner: no revocation task is scheduled, nothing is sent or written, the
\* winner is not recorded and does not count in the advance of current_task
C22_GrantFailure ==
  [][\A l \in 1..MaxLoops :
       (/\ l \in 1..Len(loops) /\ l \in 1..Len(loops')
        /\ loops[l].status = "running" /\ loops[l].pc = "settle_grant"
        /\ EmittedNext("skipped")) =>
         LET r == loops[l]
             w == r.winners[r.i + 1]
             last == r.i + 1 = Len(r.winners)
         IN /\ out' = << <<"skipped", w>> >>
            /\ UNCHANGED <<role_removal_tasks, role_members, settled>>
            /\ ~last =>
                 /\ loops'[l].pc = "settle_grant" /\ loops'[l].i = r.i + 1
                 /\ loops'[l].winners_assigned = r.winners_assigned
                 /\ current_task' = current_task
            /\ (last /\ r.winners_assigned # <<>>) =>
                 /\ loops'[l].pc = "congrats"
                 /\ loops'[l].winners_assigned = r.winners_assigned
                 /\ current_task' = current_task + Len(r.winners_assigned)
            /\ (last /\ r.winners_assigned = <<>>) =>
                 /\ loops'[l].pc \in {"sleep", "end"}
                 /\ current_task' = current_task]_vars

\* the grant of the first of two winners failed: the second is next, nothing
\* is scheduled and nobody is recorded
C22_Witness ==
  /\ Len(out) = 1 /\ out[1][1] = "skipped"
  /\ role_removal_tasks = <<>> /\ role_members = {} /\ settled = 0
  /\ \E l \in LoopIds :
       /\ loops[l].pc = "settle_grant" /\ loops[l].i = 1
       /\ loops[l].winners_assigned = <<>>
       /\ out[1][2] = loops[l].winners[1]

\* C23: dm_winner never raises to its caller: whatever the private send, the
\* public fallback and the log send do, the step that notifies a winner goes
\* on to write_to_sheet and records the winner
C23_DmNeverRaises ==
  [][\A l \in 1..MaxLoops :
       Leaves(l, "settle_notify") =>
         /\ EmittedNext("sheet")
         /\ ~EmittedNext("skipped")
         /\ settled' = settled + 1]_vars

\* loop l ran the step in which the framing of its round failed: the
\* announcement or the bot's reaction in the tick, or the fetch after the window
FramingFailed(l) ==
  /\ l \in 1..Len(loops) /\ l \in 1..Len(loops')
  /\ loops[l].status = "running" /\ loops'[l].status # "cancelled"
  /\ EmittedNext("critical")
  /\ \/ loops[l].pc \in {"start", "sleep"} /\ Ticked("round")
     \/ loops[l].pc = "window" /\ out' = Critical

FramingFrame ==
  /\ ~(EmittedNext("grant") \/ EmittedNext("dm") \/ EmittedNext("public")
       \/ EmittedNext("sheet") \/ EmittedNext("congrats") \/ EmittedNext("skipped"))
  /\ UNCHANGED <<botvars, task_allocation_loop, role_members,
                 role_removal_tasks, settled>>

Reannounced ==
  (EmittedNext("announce") /\ Len(aborted_range) = 2) =>
    EntryNext("announce") = <<"announce", aborted_range[1], aborted_range[2]>>

\* C24: a failure in the framing of a round ends only that round: the tick
\* catches the exception, no winner is settled, current_task is unchanged,
\* the timer keeps running, and the next announcement offers the same range
C24_FramingFailure ==
  [][/\ \A l \in 1..MaxLoops :
          FramingFailed(l) =>
            /\ FramingFrame
            /\ loops'[l].status = "running" /\ loops'[l].pc = "sleep"
     /\ Reannounced]_vars

\* C24 as the code keeps it: the failure itself does not halt the timer, which
\* runs on unless an earlier stop_tasks had marked that loop to end
C24_FramingFailureFrame ==
  [][/\ \A l \in 1..MaxLoops :
          FramingFailed(l) =>
            /\ FramingFrame
            /\ ~loops[l].stop_next =>
                 loops'[l].status = "running" /\ loops'[l].pc = "sleep"
     /\ Reannounced]_vars

\* the announcement of a round failed and the next tick announced the range
\* again
C24_Witness ==
  /\ Len(aborted_range) = 3 /\ settled = 0
  /\ out = << <<"tick", "round">>, <<"announce", aborted_range[1], aborted_range[2]>> >>
  /\ \E l \in LoopIds : loops[l].status = "running" /\ loops[l].pc = "window"

(* ---------- one call of write_to_sheet ---------- *)
SheetCall == out'[1]
SheetSteps == Tail(out')
CountSteps(kind) == Cardinality({k \in 1..Len(SheetSteps) : SheetSteps[k][1] = kind})
IsSleep(e) == e[1] = "sleep"

\* C25: a call of write_to_sheet makes at most 3 attempts, stops at the first
\* one that does not raise, sleeps 1 s after the first failed attempt and 2 s
\* after the second and not after the third; a row beyond row_count ends the
\* call where it is detected, with no cell written and no further attempt
C25_SheetRetries ==
  [][EmittedNext("write_to_sheet") =>
       LET tr == SheetSteps
           failed == CountSteps("attempt_failed")
       IN /\ failed + CountSteps("update_cell") + CountSteps("out_of_bounds")
               + CountSteps("invalid_url") <= 3
          /\ CountSteps("update_cell") <= 1
          /\ \A k \in 1..Len(tr) :
               /\ tr[k][1] \in {"update_cell", "out_of_bounds"} =>
                    /\ k = Len(tr)
                    /\ SheetCall[7][failed + 1] = "ok"
                    /\ \A j \in 1..failed : SheetCall[7][j] = "raises"
               /\ tr[k][1] = "update_cell" =>
                    tr[k] = <<"update_cell", SheetCall[2] + 1, 4, SheetCall[3]>>
               /\ tr[k][1] = "sleep" =>
                    /\ k > 1 /\ tr[k - 1][1] = "attempt_failed"
                    /\ tr[k - 1][2] < 3
               /\ tr[k][1] = "attempt_failed" =>
                    /\ k < Len(tr)
                    /\ tr[k + 1] = IF tr[k][2] = 1 THEN <<"sleep", 1>>
                                   ELSE IF tr[k][2] = 2 THEN <<"sleep", 2>>
                                   ELSE <<"critical">>
          /\ SelectSeq(tr, IsSleep)
               = SubSeq(<< <<"sleep", 1>>, <<"sleep", 2>> >>, 1, Min(failed, 2))
          /\ (/\ SheetCall[4] /\ SheetCall[5] = "valid"
              /\ SheetCall[2] + 1 > SheetCall[6]
              /\ \E j \in 1..3 : SheetCall[7][j] = "ok") =>
               /\ tr[Len(tr)][1] = "out_of_bounds"
               /\ CountSteps("update_cell") = 0]_vars

\* three attempts failed: two sleeps, then the critical log
C25_Witness ==
  /\ Len(out) = 7 /\ out[1][1] = "write_to_sheet"
  /\ <<out[2], out[4], out[6]>>
       = << <<"attempt_failed", 1>>, <<"attempt_failed", 2>>, <<"attempt_failed", 3>> >>
  /\ <<out[3], out[5], out[7]>> = << <<"sleep", 1>>, <<"sleep", 2>>, <<"critical">> >>

\* the ledger outcome the cycle's model uses agrees with the call-by-call one
SheetAbstraction ==
  [][EmittedNext("write_to_sheet") =>
       LET c == SheetCall
           sheet == IF ~c[4] \/ c[5] = "none" THEN "unconfigured"
                    ELSE IF c[5] = "invalid" THEN "invalid_url"
                    ELSE IF c[2] + 1 > c[6] THEN "out_of_bounds"
                    ELSE "ok"
           fails == IF c[7][1] = "ok" THEN 0
                    ELSE IF c[7][2] = "ok" THEN 1
                    ELSE IF c[7][3] = "ok" THEN 2 ELSE 3
           ws == WriteToSheet(sheet, fails)
       IN /\ ~ws.raises
          /\ (ws.outcome = "written") = (CountSteps("update_cell") = 1)
          /\ (ws.outcome = "failed") = (CountSteps("critical") = 1)
          /\ sheet # "invalid_url" => ws.attempts
               = CountSteps("attempt_failed") + CountSteps("update_cell")
                 + CountSteps("out_of_bounds")]_vars

\* C26: a revocation task that fires attempts remove_roles at most once and
\* only when the member was fetched and still holds the role; when the member
\* has left or the role is absent nothing is removed and no error is logged;
\* whatever happens the task is gone (no retry) and the counters, the flags,
\* the loops and the open round are as they were
C26_Revocation ==
  [][EmittedNext("revocation") =>
       LET e == EntryNext("revocation")
           w == e[2]
           attempts == Cardinality({k \in 1..Len(out') : out'[k][1] = "remove_roles"})
       IN /\ role_removal_tasks # <<>> /\ w = Head(role_removal_tasks)[1]
          /\ role_removal_tasks' = Tail(role_removal_tasks)
          /\ attempts <= 1
          /\ attempts = 1 => (w \in role_members /\ out'[1] = <<"remove_roles", w>>)
          /\ e[3] \in {"left", "absent"} =>
               (attempts = 0 /\ role_members' = role_members)
          /\ e[3] = "absent" <=> (w \notin role_members /\ e[3] \notin {"left", "fetch_error"})
          /\ e[3] \in {"fetch_error", "remove_error"} => role_members' = role_members
          /\ e[3] = "removed" => role_members' = role_members \ {w}
          /\ UNCHANGED <<botvars, loops, task_allocation_loop, reaction_timestamps,
                         next_message_id, settled>>]_vars

\* a revocation found the role already gone (removed by the sweep of on_ready)
\* while a round was open, and did nothing
C26_Witness ==
  /\ Len(out) = 1 /\ out[1][1] = "revocation" /\ out[1][3] = "absent"
  /\ \E l \in LoopIds : RoundOpen(loops[l])

\* C27: scheduling a revocation does not block the cycle and the loop does not
\* touch pending revocations: the grant step adds the winner's task and goes
\* on to the notification; a pending task leaves the list only by firing,
\* whatever is done to the loop (stop, restart, completion); and a pending
\* task can fire in every state the event budget allows, whatever the loop does
C27_RevocationIndependent ==
  [][/\ \A l \in 1..MaxLoops :
          (/\ l \in 1..Len(loops) /\ l \in 1..Len(loops')
           /\ loops[l].status = "running" /\ loops[l].pc = "settle_grant"
           /\ EmittedNext("grant")) =>
            /\ role_removal_tasks'
                 = Append(role_removal_tasks, <<loops[l].winners[loops[l].i + 1], "cycle">>)
            /\ loops'[l].pc = "settle_notify"
     /\ \/ EmittedNext("revocation")
        \/ /\ Len(role_removal_tasks') >= Len(role_removal_tasks)
           /\ SubSeq(role_removal_tasks', 1, Len(role_removal_tasks)) = role_removal_tasks
     /\ (role_removal_tasks # <<>> /\ env_events < MaxEnvEvents) => ENABLED RevocationFires]_vars

\* a round is announced while the revocation of a winner of an earlier round
\* is still pending
C27_Witness ==
  /\ Emitted("announce") /\ settled >= 1
  /\ \E k \in 1..Len(role_removal_tasks) : role_removal_tasks[k][2] = "cycle"
  /\ \E l \in LoopIds : loops[l].pc = "window" /\ loops[l].message = 2

\* C28: only users who reacted with the check mark are eligible: every winner
\* selected when the window elapses has a check-mark reaction on the
\* announcement
C28_CheckEmojiOnly ==
  [][\A l \in 1..MaxLoops :
       (Leaves(l, "window") /\ loops'[l].pc = "settle_grant") =>
         \A k \in 1..Len(loops'[l].eligible) :
           <<loops'[l].eligible[k], "check">> \in msg_reactions[loops[l].message]]_vars

NoRepeats(seq) == \A j, k \in 1..Len(seq) : seq[j] = seq[k] => j = k

\* C29: the eligible list of a round holds each candidate once, also one who
\* appears under several reactions, no bot and nobody whose membership did
\* not resolve; so nobody is assigned two tasks of a round
C29_EligibleOnce ==
  [][\A l \in 1..MaxLoops :
       /\ (Leaves(l, "window") /\ loops'[l].pc = "settle_grant") =>
            LET r == loops'[l]
            IN /\ NoRepeats(r.eligible) /\ NoRepeats(r.winners)
               /\ SeqSet(r.eligible) \subseteq Users
               /\ BotUser \notin SeqSet(r.eligible)
               /\ EmittedNext("unresolved") =>
                    SeqSet(r.eligible) \cap EntryNext("unresolved")[2] = {}
               /\ EmittedNext("repeated") =>
                    EntryNext("repeated")[2] \subseteq SeqSet(r.eligible) \cup role_members
       /\ (l \in 1..Len(loops') /\ loops'[l].status = "running") =>
            NoRepeats([k \in 1..Len(loops'[l].winners_assigned) |->
                         loops'[l].winners_assigned[k][1]])]_vars

\* user 1 reacted with both emojis and is the one candidate of the round,
\* next to the bot's own check mark
C29_Witness ==
  /\ out = << <<"fetch">>, <<"repeated", {1}>> >>
  /\ \E l \in LoopIds :
       /\ loops[l].pc = "settle_grant"
       /\ loops[l].eligible = <<1>> /\ loops[l].winners = <<1>>

\* the members get_member_safely resolved in the step just taken
ResolvedNext ==
  IF EmittedNext("unresolved") THEN Users \ EntryNext("unresolved")[2] ELSE Users

\* the eligible list holds a member with a first-seen timestamp and one without
Mixed(eligible, stamps) ==
  /\ \E k \in 1..Len(eligible) : eligible[k] \in DOMAIN stamps
  /\ \E k \in 1..Len(eligible) : eligible[k] \notin DOMAIN stamps

\* C30: when the eligible list mixes candidates with and without a first-seen
\* timestamp, the selection completes, the candidates without a timestamp
\* come after those with one, and the round goes on to settlement
C30_MixedSortCompletes ==
  [][\A l \in 1..MaxLoops :
       (Leaves(l, "window") /\ EmittedNext("fetch")) =>
         LET m == loops[l].message
             stamps == IF m \in DOMAIN reaction_timestamps
                       THEN reaction_timestamps[m] ELSE <<>>
             eligible == EligibleReactors(Reactors(msg_reactions[m], ResolvedNext),
                                          role_members)
         IN Mixed(eligible, stamps) =>
              /\ loops'[l].pc = "settle_grant"
              /\ SeqSet(loops'[l].eligible) = SeqSet(eligible)
              /\ \A j, k \in 1..Len(loops'[l].winners) :
                    (/\ loops'[l].winners[j] \notin DOMAIN stamps
                     /\ loops'[l].winners[k] \in DOMAIN stamps) => k < j]_vars

\* a revocation task for member w is in flight
Pending(tasks, w) == \E k \in 1..Len(tasks) : tasks[k][1] = w

\* C31: a grant lasts at least the removal delay. The tasks sleep the same
\* delay and finish in the order they were scheduled, so a task for w still
\* in flight after a revocation belongs to a later grant whose delay has not
\* run out: no role is taken from w while such a task remains
C31_GrantLasts ==
  [][\A w \in Users :
       (w \in role_members /\ w \notin role_members') =>
         ~Pending(role_removal_tasks', w)]_vars

\* C32: whenever no round is open, the task numbers the cycle has settled in
\* the batch are exactly 1 .. current_task - 1, each for exactly one winner
C32_SettledPrefix ==
  NoRoundOpen =>
    \A t \in 1..MaxTasks : settled_tasks[t] = (IF t < current_task THEN 1 ELSE 0)

\* the same in the first batch with no loop cancelled: violated by a round
\* whose first winner fails and whose second winner is settled
C32_SettledPrefixUncancelled ==
  (batch = 1 /\ \A l \in LoopIds : loops[l].status # "cancelled") => C32_SettledPrefix

Advances(l) ==
  /\ Leaves(l, "settle_grant") \/ Leaves(l, "settle_notify")
  /\ loops'[l].pc = "congrats"
  /\ current_task' = current_task + Len(loops'[l].winners_assigned)

CompletedTick ==
  /\ out # <<>> /\ out[1] = <<"tick", "completed">>
  /\ current_task > total_tasks
  /\ \A l \in LoopIds : loops[l].status = "done"

\* C34: a batch whose loop is never stopped, that is not paused forever and
\* in which enough candidates react and are settled, eventually has
\* current_task > total_tasks, and a later tick takes the completed branch
\* and halts the timer
C34_BatchCompletes ==
  (<>(settled >= total_tasks) /\ []<>(~is_paused)) => <>CompletedTick

\* a batch of two tasks completed in two rounds, with the notice delivered
C34_Witness ==
  /\ CompletedTick /\ Emitted("completion")
  /\ total_tasks = MaxTasks /\ settled = MaxTasks
  /\ next_message_id = 3

\* C35: every member who holds the cooldown role has a revocation task in
\* flight (role_removal_tasks holds the tasks scheduled and not yet finished)
C35_HolderHasTask ==
  \A w \in role_members : Pending(role_removal_tasks, w)

\* the same as long as no external call has failed: violated by a loop
\* cancelled while add_roles is in flight
C35_HolderHasTaskUnfailed == faults = 0 => C35_HolderHasTask

====
